---- MODULE Spec2Model ----
(***************************************************************************)
(* Model of src/rust/src/api/groups/group_params.rs (zkgroup):             *)
(* GroupMasterKey, GroupSecretParams, GroupPublicParams and the blob       *)
(* cipher built on AES-256-GCM-SIV.                                        *)
(*                                                                         *)
(* Bytes are integers 0..255 and byte strings are sequences of them.       *)
(* The collaborators whose code is outside group_params.rs (the labelled   *)
(* byte expander ShoSha256, the AEAD, the two deterministic public-key     *)
(* encryptions and the signature) are small executable stand-ins that      *)
(* keep the contract the module relies on: they are computed, not          *)
(* assumed, so a framing or key-selection slip in group_params.rs shows    *)
(* up as a failed decryption or verification.                              *)
(***************************************************************************)
EXTENDS Integers, Sequences, FiniteSets, TLC

\* -------------------------------------------------------------- state
\* params: the GroupSecretParams instances constructed so far, by slot
\* origin: how each instance was constructed (generate / derive, and from what)
\* last:   the call whose return value the caller holds: its receiver,
\*         arguments and return value
VARIABLES params, origin, last
vars == <<params, origin, last>>

\* ------------------------------------------------------------------ sizes
GROUP_MASTER_KEY_LEN == 32
GROUP_IDENTIFIER_LEN == 32
RANDOMNESS_LEN == 32
UUID_LEN == 16
PROFILE_KEY_LEN == 32
AEAD_KEY_LEN == 32
AEAD_NONCE_LEN == 12
AEAD_TAG_LEN == 16

\* ----------------------------------------------------------------- bounds
\* plaintext blobs have 0..MaxPlainLen bytes
MaxPlainLen == 2
\* number of GroupSecretParams instances alive at once
\* number of distinct caller randomness values
NRand == 2
\* number of distinct imported master keys
NKeys == 2
\* number of distinct identifiers / profile keys / messages
NVals == 2
\* longest attacker-made input handed to decrypt_blob
MaxInLen == 30


Ok(v) == <<"Ok", v>>
Err(e) == <<"Err", e>>
IsOk(res) == res[1] = "Ok"
IsErr(res) == res[1] = "Err"

\* a byte string of n bytes whose j-th byte is (v * j) mod 256
Pattern(v, n) == [j \in 1..n |-> (v * j) % 256]

\* ------------------------------------------------ labelled byte expander
\* The domain-separation labels of group_params.rs.
LabelCode(label) ==
    CASE label = "Signal_ZKGroup_Master_Random" -> 101
      [] label = "Signal_ZKGroup_Sig_Client_KeyDerive" -> 211
      [] label = "Signal_ZKGroup_GroupId" -> 307
      [] label = "Signal_ZKGroup_BlobEnc_KeyDerive" -> 401
      [] label = "Signal_ZKGroup_BlobEnc_Nonce" -> 503
      [] label = "uid_encryption_a1" -> 601
      [] label = "uid_encryption_a2" -> 607
      [] label = "uid_struct_M1" -> 613
      [] label = "profile_key_encryption_b1" -> 701
      [] label = "profile_key_encryption_b2" -> 709
      [] label = "profile_key_struct_M3" -> 719
      [] label = "signature_nonce" -> 751
      [] label = "signature_challenge" -> 761
      [] label = "aead_tag" -> 809
      [] label = "aead_stream" -> 907

\* the expander's state is a number below this prime
ShoPrime == 46337

\* b^e modulo m, by squaring
RECURSIVE ModPow(_, _, _)
ModPow(b, e, m) ==
    IF e = 0 THEN 1
    ELSE LET h == ModPow(b, e \div 2, m)
         IN  IF e % 2 = 0 THEN (h * h) % m ELSE (((h * h) % m) * b) % m

\* the state after absorbing the first n bytes of a byte string into acc:
\* acc := (acc * 251 + byte + 1) mod ShoPrime for each byte in turn (four
\* bytes per step while four are left)
RECURSIVE AbsorbUpTo(_, _, _)
AbsorbUpTo(acc, bytes, n) ==
    IF n = 0 THEN acc
    ELSE IF n >= 4
    THEN (((((((AbsorbUpTo(acc, bytes, n - 4) * 251 + bytes[n - 3] + 1) % ShoPrime) * 251
               + bytes[n - 2] + 1) % ShoPrime) * 251
             + bytes[n - 1] + 1) % ShoPrime) * 251
          + bytes[n] + 1) % ShoPrime
    ELSE (AbsorbUpTo(acc, bytes, n - 1) * 251 + bytes[n] + 1) % ShoPrime

\* absorb a whole byte string into the state acc
Absorb(acc, bytes) == AbsorbUpTo(acc, bytes, Len(bytes))

\* the first n bytes of the one continuous stream that state st determines
Squeeze(st, n) ==
    [i \in 1..n |-> (((st + 1) * (2 * i + 1) * 251 + i * i) % ShoPrime) % 256]

\* ShoSha256::shohash(label, input, outlen): outlen bytes, a function of
\* (label, input) alone, and a prefix of every longer expansion
ShoHash(label, input, outlen) == Squeeze(Absorb(LabelCode(label), input), outlen)

\* --------------------------------------------------------------- AEAD
\* Stand-in for Aes256GcmSiv with the SIV shape of RFC 8452: the tag is a
\* keyed digest of (nonce, plaintext); the keystream is derived from the key
\* and the tag; decryption recovers the plaintext from the keystream and
\* accepts iff the recomputed tag equals the received one.
AeadTagState(key, nonce, plaintext) ==
    Absorb(Absorb(Absorb(LabelCode("aead_tag"), key), nonce), plaintext)

\* 16 tag bytes; the first two hold the digest itself
AeadTagBytes(t) == <<t % 256, t \div 256>> \o Squeeze(t, AEAD_TAG_LEN - 2)

AeadStream(key, tag, n) ==
    Squeeze(Absorb(Absorb(LabelCode("aead_stream"), key), tag), n)

\* bytewise a + b and a - b modulo 256 (b at least as long as a)
AddBytes(a, b) == [j \in 1..Len(a) |-> (a[j] + b[j]) % 256]
SubBytes(a, b) == [j \in 1..Len(a) |-> (a[j] - b[j] + 256) % 256]

\* Aead::encrypt(nonce, plaintext): ciphertext body followed by the tag
AeadEncrypt(key, nonce, plaintext) ==
    LET t16 == AeadTagBytes(AeadTagState(key, nonce, plaintext))
        ks  == AeadStream(key, t16, Len(plaintext))
    IN  Ok(AddBytes(plaintext, ks) \o t16)

\* Aead::decrypt(nonce, ciphertext): an input too short to hold a tag is an
\* error, as is a tag that does not match
AeadDecryptFull(key, nonce, ciphertext) ==
    LET n    == Len(ciphertext) - AEAD_TAG_LEN
        body == SubSeq(ciphertext, 1, n)
        t16  == SubSeq(ciphertext, n + 1, Len(ciphertext))
        pt   == SubBytes(body, AeadStream(key, t16, n))
    IN  IF AeadTagBytes(AeadTagState(key, nonce, pt)) = t16
        THEN Ok(pt)
        ELSE Err("aead::Error")

AeadDecrypt(key, nonce, ciphertext) ==
    IF Len(ciphertext) < AEAD_TAG_LEN THEN Err("aead::Error")
    ELSE AeadDecryptFull(key, nonce, ciphertext)

\* ------------------------------------------------- the prime-order group
\* Stand-in for the Ristretto group of the public-key collaborators: the
\* subgroup of order GroupQ of the integers modulo the prime GroupP = 2q+1.
GroupP == 46199
GroupQ == 23099
GenG == 289
GenH == 4

ModExp(b, e) == ModPow(b, e, GroupP)

\* a nonzero scalar derived from a byte string under a label
ScalarFrom(label, bytes) == 1 + (Absorb(LabelCode(label), bytes) % (GroupQ - 1))

\* a number below 65536 as two bytes, and back
Bytes2(n) == <<n % 256, n \div 256>>
Num2(bytes, j) == bytes[j] + 256 * bytes[j + 1]

\* ------------------------------------- crypto::uid_struct / uid_encryption
\* UidStruct::new(uid_bytes): the bytes and the group element hashed from them
UidStruct_new(uid_bytes) ==
    [bytes |-> uid_bytes,
     M1 |-> ModExp(GenG, ScalarFrom("uid_struct_M1", uid_bytes))]

UidStruct_to_bytes(uid) == uid.bytes

\* uid_encryption::KeyPair::derive_from(master_key.bytes)
UidEnc_derive_from(bytes) ==
    LET a1 == ScalarFrom("uid_encryption_a1", bytes)
        a2 == ScalarFrom("uid_encryption_a2", bytes)
    IN  [a1 |-> a1, a2 |-> a2,
         public_key |-> [A |-> (ModExp(GenG, a1) * ModExp(GenH, a2)) % GroupP]]

UidEnc_get_public_key(key_pair) == key_pair.public_key

\* the mask the second ciphertext component carries, a function of a2 and E_A1
UidEnc_mask(key_pair, E_A1, n) == Squeeze(Absorb(key_pair.a2, Bytes2(E_A1)), n)

\* uid_encryption::KeyPair::encrypt(uid): deterministic, E_A1 = a1 * M1 and
\* E_A2 = a2 * E_A1 + M2
UidEnc_encrypt(key_pair, uid) ==
    LET E_A1 == ModExp(uid.M1, key_pair.a1)
    IN  [E_A1 |-> E_A1,
         E_A2 |-> AddBytes(uid.bytes, UidEnc_mask(key_pair, E_A1, Len(uid.bytes)))]

\* uid_encryption::KeyPair::decrypt(ciphertext): unmask, rebuild the struct,
\* and accept iff a1 * M1 is the received E_A1
UidEnc_decrypt(key_pair, ciphertext) ==
    LET uid == UidStruct_new(SubBytes(ciphertext.E_A2,
                   UidEnc_mask(key_pair, ciphertext.E_A1, Len(ciphertext.E_A2))))
    IN  IF ModExp(uid.M1, key_pair.a1) = ciphertext.E_A1
        THEN Ok(uid)
        ELSE Err("DecryptionFailure")

\* ------------------------- crypto::profile_key_struct / profile_key_encryption
ProfileKeyStruct_new(profile_key_bytes) ==
    [bytes |-> profile_key_bytes,
     M3 |-> ModExp(GenG, ScalarFrom("profile_key_struct_M3", profile_key_bytes))]

ProfileKeyEnc_derive_from(bytes) ==
    LET b1 == ScalarFrom("profile_key_encryption_b1", bytes)
        b2 == ScalarFrom("profile_key_encryption_b2", bytes)
    IN  [b1 |-> b1, b2 |-> b2,
         public_key |-> [B |-> (ModExp(GenG, b1) * ModExp(GenH, b2)) % GroupP]]

ProfileKeyEnc_get_public_key(key_pair) == key_pair.public_key

ProfileKeyEnc_mask(key_pair, E_B1, n) == Squeeze(Absorb(key_pair.b2, Bytes2(E_B1)), n)

ProfileKeyEnc_encrypt(key_pair, profile_key) ==
    LET E_B1 == ModExp(profile_key.M3, key_pair.b1)
    IN  [E_B1 |-> E_B1,
         E_B2 |-> AddBytes(profile_key.bytes,
                      ProfileKeyEnc_mask(key_pair, E_B1, Len(profile_key.bytes)))]

ProfileKeyEnc_decrypt(key_pair, ciphertext) ==
    LET pk == ProfileKeyStruct_new(SubBytes(ciphertext.E_B2,
                  ProfileKeyEnc_mask(key_pair, ciphertext.E_B1, Len(ciphertext.E_B2))))
    IN  IF ModExp(pk.M3, key_pair.b1) = ciphertext.E_B1
        THEN Ok(pk)
        ELSE Err("DecryptionFailure")

\* ------------------------------------------------------- crypto::signature
\* signature::KeyPair::derive_from(bytes, label)
Sig_derive_from(bytes, label) ==
    LET sk == ScalarFrom(label, bytes)
    IN  [signing_key |-> sk, public_key |-> [pk |-> ModExp(GenG, sk)]]

Sig_get_public_key(key_pair) == key_pair.public_key

\* the challenge of a Schnorr signature: a scalar from (R, pk, message)
Sig_challenge(R, pk, message) ==
    Absorb(Absorb(LabelCode("signature_challenge"), Bytes2(R) \o Bytes2(pk)), message)
        % GroupQ

\* signature::KeyPair::sign(message, randomness): the commitment R = g^k with
\* k drawn from (signing key, randomness, message), and s = k + c * sk
Sig_sign(key_pair, message, randomness) ==
    LET k == 1 + (Absorb(Absorb(Absorb(LabelCode("signature_nonce"),
                     Bytes2(key_pair.signing_key)), randomness), message)
                  % (GroupQ - 1))
        R == ModExp(GenG, k)
        c == Sig_challenge(R, key_pair.public_key.pk, message)
    IN  Ok(Bytes2(R) \o Bytes2((k + c * key_pair.signing_key) % GroupQ))

\* signature::PublicKey::verify(message, signature): g^s = R * pk^c
Sig_verify(public_key, message, signature) ==
    LET R == Num2(signature, 1)
        s == Num2(signature, 3)
        c == Sig_challenge(R, public_key.pk, message)
    IN  IF R > 0 /\ R < GroupP /\ s < GroupQ
           /\ ModExp(GenG, s) = (R * ModExp(public_key.pk, c)) % GroupP
        THEN Ok(<<>>)
        ELSE Err("SignatureVerificationFailure")

\* ------------------------------------------------------- GroupMasterKey
GroupMasterKey_new(bytes) == [bytes |-> bytes]

\* ----------------------------------------------------- GroupSecretParams
\* mutant: the group id also depends on how many instances exist already
derive_from_master_key_stateful(master_key) ==
    [uid_enc_key_pair |-> UidEnc_derive_from(master_key.bytes),
     profile_key_enc_key_pair |-> ProfileKeyEnc_derive_from(master_key.bytes),
     sig_key_pair |-> Sig_derive_from(master_key.bytes,
                                      "Signal_ZKGroup_Sig_Client_KeyDerive"),
     master_key |-> master_key,
     group_id |-> SubSeq(ShoHash("Signal_ZKGroup_GroupId",
                                 master_key.bytes \o <<Cardinality(DOMAIN params)>>,
                                 GROUP_IDENTIFIER_LEN), 1, GROUP_IDENTIFIER_LEN)]

derive_from_master_key(master_key) ==
    [uid_enc_key_pair |-> UidEnc_derive_from(master_key.bytes),
     profile_key_enc_key_pair |-> ProfileKeyEnc_derive_from(master_key.bytes),
     sig_key_pair |-> Sig_derive_from(master_key.bytes,
                                      "Signal_ZKGroup_Sig_Client_KeyDerive"),
     master_key |-> master_key,
     group_id |-> SubSeq(ShoHash("Signal_ZKGroup_GroupId", master_key.bytes,
                                 GROUP_IDENTIFIER_LEN), 1, GROUP_IDENTIFIER_LEN)]

generate(randomness) ==
    derive_from_master_key(
        [bytes |-> SubSeq(ShoHash("Signal_ZKGroup_Master_Random", randomness,
                                  GROUP_MASTER_KEY_LEN), 1, GROUP_MASTER_KEY_LEN)])

get_master_key(self) == self.master_key

get_group_identifier(self) == self.group_id

\* mutant: the signature public key slot is filled from the wrong key pair
get_public_params_wrong_sig_key(self) ==
    [uid_enc_public_key |-> UidEnc_get_public_key(self.uid_enc_key_pair),
     profile_key_enc_public_key |->
         ProfileKeyEnc_get_public_key(self.profile_key_enc_key_pair),
     sig_public_key |-> [pk |-> self.uid_enc_key_pair.public_key.A],
     group_id |-> self.group_id]

\* mutant: the group id slot is filled with the master key bytes
get_public_params_leaks_master_key(self) ==
    [uid_enc_public_key |-> UidEnc_get_public_key(self.uid_enc_key_pair),
     profile_key_enc_public_key |->
         ProfileKeyEnc_get_public_key(self.profile_key_enc_key_pair),
     sig_public_key |-> Sig_get_public_key(self.sig_key_pair),
     group_id |-> self.master_key.bytes]

get_public_params(self) ==
    [uid_enc_public_key |-> UidEnc_get_public_key(self.uid_enc_key_pair),
     profile_key_enc_public_key |->
         ProfileKeyEnc_get_public_key(self.profile_key_enc_key_pair),
     sig_public_key |-> Sig_get_public_key(self.sig_key_pair),
     group_id |-> self.group_id]

sign(self, randomness, message) == Sig_sign(self.sig_key_pair, message, randomness)

\* mutant: encrypts under the key pair of the default (all-zero) master key
encrypt_uid_struct_default_key(self, uid) ==
    [ciphertext |->
        UidEnc_encrypt(UidEnc_derive_from(Pattern(0, GROUP_MASTER_KEY_LEN)), uid)]

encrypt_uid_struct(self, uid) ==
    [ciphertext |-> UidEnc_encrypt(self.uid_enc_key_pair, uid)]

encrypt_uuid(self, uid_bytes) == encrypt_uid_struct(self, UidStruct_new(uid_bytes))

decrypt_uuid(self, ciphertext) ==
    LET uid == UidEnc_decrypt(self.uid_enc_key_pair, ciphertext.ciphertext)
    IN  IF IsErr(uid) THEN uid ELSE Ok(UidStruct_to_bytes(uid[2]))

\* mutant: the randomness argument is used
encrypt_profile_key_bytes_randomized(self, randomness, profile_key_bytes) ==
    [ciphertext |-> ProfileKeyEnc_encrypt(self.profile_key_enc_key_pair,
                        ProfileKeyStruct_new(AddBytes(profile_key_bytes, randomness)))]

encrypt_profile_key_bytes(self, randomness, profile_key_bytes) ==
    [ciphertext |-> ProfileKeyEnc_encrypt(self.profile_key_enc_key_pair,
                                          ProfileKeyStruct_new(profile_key_bytes))]

encrypt_profile_key(self, randomness, profile_key) ==
    encrypt_profile_key_bytes(self, randomness, profile_key.bytes)

decrypt_profile_key(self, ciphertext) ==
    LET profile_key_struct ==
            ProfileKeyEnc_decrypt(self.profile_key_enc_key_pair, ciphertext.ciphertext)
    IN  IF IsErr(profile_key_struct) THEN profile_key_struct
        ELSE Ok([bytes |-> profile_key_struct[2].bytes])

encrypt_blob_aesgcmsiv(self, key, nonce, plaintext) ==
    LET r == AeadEncrypt(key, nonce, plaintext)
    IN  IF IsOk(r) THEN Ok(r[2]) ELSE Err("BadArgs")

\* mutant: no length check before the AEAD is called
decrypt_blob_aesgcmsiv_no_tag_check(self, key, nonce, ciphertext) ==
    LET r == AeadDecrypt(key, nonce, ciphertext)
    IN  [ret |-> IF IsOk(r) THEN Ok(r[2]) ELSE Err("DecryptionFailure"), aead |-> 1]

\* mutant: an AEAD failure is reported as BadArgs, as on the encrypt side
decrypt_blob_aesgcmsiv_bad_args(self, key, nonce, ciphertext) ==
    IF Len(ciphertext) < AEAD_TAG_LEN
    THEN [ret |-> Err("DecryptionFailure"), aead |-> 0]
    ELSE LET r == AeadDecrypt(key, nonce, ciphertext)
         IN  [ret |-> IF IsOk(r) THEN Ok(r[2]) ELSE Err("BadArgs"), aead |-> 1]

\* the result, and the number of calls of the AEAD's decrypt made to get it
decrypt_blob_aesgcmsiv(self, key, nonce, ciphertext) ==
    IF Len(ciphertext) < AEAD_TAG_LEN
    THEN [ret |-> Err("DecryptionFailure"), aead |-> 0]
    ELSE LET r == AeadDecrypt(key, nonce, ciphertext)
         IN  [ret |-> IF IsOk(r) THEN Ok(r[2]) ELSE Err("DecryptionFailure"),
              aead |-> 1]

\* mutant: the nonce is put in front of the ciphertext
encrypt_blob_nonce_prepended(self, randomness, plaintext) ==
    LET key_vec == ShoHash("Signal_ZKGroup_BlobEnc_KeyDerive", self.master_key.bytes,
                           AEAD_KEY_LEN)
        nonce_vec == ShoHash("Signal_ZKGroup_BlobEnc_Nonce", randomness, AEAD_NONCE_LEN)
        r == encrypt_blob_aesgcmsiv(self, key_vec, nonce_vec, plaintext)
    IN  IF IsOk(r) THEN Ok(nonce_vec \o r[2]) ELSE r

encrypt_blob(self, randomness, plaintext) ==
    LET key_vec == ShoHash("Signal_ZKGroup_BlobEnc_KeyDerive", self.master_key.bytes,
                           AEAD_KEY_LEN)
        nonce_vec == ShoHash("Signal_ZKGroup_BlobEnc_Nonce", randomness, AEAD_NONCE_LEN)
        r == encrypt_blob_aesgcmsiv(self, key_vec, nonce_vec, plaintext)
    IN  IF IsOk(r) THEN Ok(r[2] \o nonce_vec) ELSE r

\* mutant: the nonce is read from the front of the input
decrypt_blob_nonce_first(self, ciphertext) ==
    LET key_vec == ShoHash("Signal_ZKGroup_BlobEnc_KeyDerive", self.master_key.bytes,
                           AEAD_KEY_LEN)
    IN  IF Len(ciphertext) < AEAD_NONCE_LEN
        THEN [ret |-> Err("DecryptionFailure"), aead |-> 0]
        ELSE decrypt_blob_aesgcmsiv(self, key_vec,
                 SubSeq(ciphertext, 1, AEAD_NONCE_LEN),
                 SubSeq(ciphertext, AEAD_NONCE_LEN + 1, Len(ciphertext)))

decrypt_blob(self, ciphertext) ==
    LET key_vec == ShoHash("Signal_ZKGroup_BlobEnc_KeyDerive", self.master_key.bytes,
                           AEAD_KEY_LEN)
    IN  IF Len(ciphertext) < AEAD_NONCE_LEN
        THEN [ret |-> Err("DecryptionFailure"), aead |-> 0]
        ELSE decrypt_blob_aesgcmsiv(self, key_vec,
                 SubSeq(ciphertext, Len(ciphertext) - AEAD_NONCE_LEN + 1, Len(ciphertext)),
                 SubSeq(ciphertext, 1, Len(ciphertext) - AEAD_NONCE_LEN))

\* ----------------------------------------------------- GroupPublicParams
pub_get_group_identifier(self) == self.group_id

verify_signature(self, message, signature) ==
    Sig_verify(self.sig_public_key, message, signature)

\* ------------------------------------------------------------- inputs
Slots == {1, 2}
Randoms == {Pattern(v, RANDOMNESS_LEN) : v \in 0..(NRand - 1)}
ImportedKeys == {GroupMasterKey_new(Pattern(v + 2, GROUP_MASTER_KEY_LEN)) : v \in 1..NKeys}
Uids == {Pattern(v, UUID_LEN) : v \in 1..NVals}
ProfileKeys == {[bytes |-> Pattern(v + 4, PROFILE_KEY_LEN)] : v \in 1..NVals}
Messages == {Pattern(v + 1, v) : v \in 0..NVals}
Plaintexts == {Pattern(v, n) : v \in {1, 251}, n \in 0..MaxPlainLen}

\* byte b with bit k flipped, and a byte string with one bit of one byte flipped
FlipBit(b, k) ==
    IF (b \div (2 ^ k)) % 2 = 1 THEN b - 2 ^ k ELSE b + 2 ^ k
FlipAt(bytes, pos, k) ==
    [j \in 1..Len(bytes) |-> IF j = pos THEN FlipBit(bytes[j], k) ELSE bytes[j]]

\* ------------------------------------------------------- call records

NoSrc == [slot |-> 0, rnd |-> <<>>, arg |-> <<>>, how |-> <<"none">>]

Call(op, slot, rnd, arg, inp, src, ret, aead) ==
    [op |-> op, slot |-> slot, rnd |-> rnd, arg |-> arg, inp |-> inp, src |-> src,
     ret |-> ret, aead |-> aead]

\* the call that produced the value now consumed, as the consumer records it
SrcOf(call, how) == [slot |-> call.slot, rnd |-> call.rnd, arg |-> call.arg, how |-> how]

NoCall == Call("none", 0, <<>>, <<>>, <<>>, NoSrc, <<>>, 0)

\* the caller holds no return value of an earlier call
Idle == last.op = "none"

Init ==
    /\ params = <<>>
    /\ origin = <<>>
    /\ last = NoCall

\* the caller drops the return value it holds, before its next independent call
Reset ==
    /\ ~Idle
    /\ last' = NoCall
    /\ UNCHANGED <<params, origin>>

\* ---------------------------------------------------------- construction
Generate(i, r) ==
    /\ Idle
    /\ i \notin DOMAIN params
    /\ params' = params @@ (i :> generate(r))
    /\ origin' = origin @@ (i :> [how |-> "generate", input |-> r])
    /\ last' = Call("generate", i, r, <<>>, <<>>, NoSrc, <<>>, 0)

DeriveFromMasterKey(i, m) ==
    /\ Idle
    /\ i \notin DOMAIN params
    /\ params' = params @@ (i :> derive_from_master_key(m))
    /\ origin' = origin @@ (i :> [how |-> "derive", input |-> m.bytes])
    /\ last' = Call("derive_from_master_key", i, <<>>, m, <<>>, NoSrc, <<>>, 0)

\* a master key handed over by the holder of another instance
ExportedKeys == {get_master_key(params[j]) : j \in DOMAIN params}

\* ------------------------------------------------------------- accessors
GetPublicParams(i) ==
    /\ Idle
    /\ i \in DOMAIN params
    /\ last' = Call("get_public_params", i, <<>>, <<>>, <<>>, NoSrc,
                    get_public_params(params[i]), 0)
    /\ UNCHANGED <<params, origin>>

GetGroupIdentifier(i) ==
    /\ Idle
    /\ i \in DOMAIN params
    /\ last' = Call("get_group_identifier", i, <<>>, <<>>, <<>>, NoSrc,
                    get_group_identifier(params[i]), 0)
    /\ UNCHANGED <<params, origin>>

\* GroupPublicParams::get_group_identifier on the PublicParams just obtained
PubGetGroupIdentifier ==
    /\ last.op = "get_public_params"
    /\ last' = Call("pub_get_group_identifier", last.slot, <<>>, <<>>, last.ret,
                    SrcOf(last, <<"asis">>), pub_get_group_identifier(last.ret), 0)
    /\ UNCHANGED <<params, origin>>

\* ------------------------------------------------------------- signature
Sign(i, r, msg) ==
    /\ Idle
    /\ i \in DOMAIN params
    /\ last' = Call("sign", i, r, msg, <<>>, NoSrc, sign(params[i], r, msg), 0)
    /\ UNCHANGED <<params, origin>>

\* a holder of the PublicParams of instance j verifies the signature just made
VerifySignature(j, msg) ==
    /\ j \in DOMAIN params
    /\ last.op = "sign"
    /\ IsOk(last.ret)
    /\ last' = Call("verify_signature", j, <<>>, msg, last.ret[2],
                    SrcOf(last, <<"asis">>),
                    verify_signature(get_public_params(params[j]), msg, last.ret[2]), 0)
    /\ UNCHANGED <<params, origin>>

\* ------------------------------------------------- identifier encryption
EncryptUuid(i, u) ==
    /\ Idle
    /\ i \in DOMAIN params
    /\ last' = Call("encrypt_uuid", i, <<>>, u, <<>>, NoSrc,
                    encrypt_uuid(params[i], u), 0)
    /\ UNCHANGED <<params, origin>>

DecryptUuid(j) ==
    /\ j \in DOMAIN params
    /\ last.op = "encrypt_uuid"
    /\ last' = Call("decrypt_uuid", j, <<>>, <<>>, last.ret, SrcOf(last, <<"asis">>),
                    decrypt_uuid(params[j], last.ret), 0)
    /\ UNCHANGED <<params, origin>>

\* ------------------------------------------------ profile-key encryption
EncryptProfileKey(i, r, k) ==
    /\ Idle
    /\ i \in DOMAIN params
    /\ last' = Call("encrypt_profile_key", i, r, k, <<>>, NoSrc,
                    encrypt_profile_key(params[i], r, k), 0)
    /\ UNCHANGED <<params, origin>>

DecryptProfileKey(j) ==
    /\ j \in DOMAIN params
    /\ last.op = "encrypt_profile_key"
    /\ last' = Call("decrypt_profile_key", j, <<>>, <<>>, last.ret,
                    SrcOf(last, <<"asis">>), decrypt_profile_key(params[j], last.ret), 0)
    /\ UNCHANGED <<params, origin>>

\* ----------------------------------------------------------------- blobs
EncryptBlob(i, r, b) ==
    /\ Idle
    /\ i \in DOMAIN params
    /\ last' = Call("encrypt_blob", i, r, b, <<>>, NoSrc, encrypt_blob(params[i], r, b), 0)
    /\ UNCHANGED <<params, origin>>

\* mutant: decrypt_blob wipes the master key of the instance it consumed
DecryptBlobOfWipesKey(j, input, how) ==
    /\ j \in DOMAIN params
    /\ LET res == decrypt_blob(params[j], input)
       IN  last' = Call("decrypt_blob", j, <<>>, <<>>, input, SrcOf(last, how),
                        res.ret, res.aead)
    /\ params' = [params EXCEPT ![j].master_key =
                      GroupMasterKey_new(Pattern(0, GROUP_MASTER_KEY_LEN))]
    /\ UNCHANGED origin

\* decrypt_blob on the bytes `input`, made from the blob just encrypted as
\* `how` tells
DecryptBlobOf(j, input, how) ==
    /\ j \in DOMAIN params
    /\ LET res == decrypt_blob(params[j], input)
       IN  last' = Call("decrypt_blob", j, <<>>, <<>>, input, SrcOf(last, how),
                        res.ret, res.aead)
    /\ UNCHANGED <<params, origin>>

\* the blob just encrypted, as it is
DecryptBlob(j) ==
    /\ last.op = "encrypt_blob"
    /\ IsOk(last.ret)
    /\ DecryptBlobOf(j, last.ret[2], <<"asis">>)

\* the blob just encrypted with one bit flipped in transit
DecryptBlobFlipped(j, pos, k) ==
    /\ last.op = "encrypt_blob"
    /\ IsOk(last.ret)
    /\ pos \in 1..Len(last.ret[2])
    /\ DecryptBlobOf(j, FlipAt(last.ret[2], pos, k), <<"flip", pos, k>>)

\* the first n bytes of the blob just encrypted
DecryptBlobTruncated(j, n) ==
    /\ last.op = "encrypt_blob"
    /\ IsOk(last.ret)
    /\ n < Len(last.ret[2])
    /\ DecryptBlobOf(j, SubSeq(last.ret[2], 1, n), <<"truncate", n>>)

\* n attacker-chosen bytes
DecryptBlobForged(j, v, n) ==
    /\ Idle
    /\ DecryptBlobOf(j, Pattern(v, n), <<"forge", v, n>>)

\* ------------------------------------------------------- specifications
Next ==
    \/ \E i \in Slots, r \in Randoms : Generate(i, r)
    \/ \E i \in Slots, m \in ImportedKeys \cup ExportedKeys : DeriveFromMasterKey(i, m)
    \/ \E i \in Slots : GetPublicParams(i)
    \/ \E i \in Slots : GetGroupIdentifier(i)
    \/ PubGetGroupIdentifier
    \/ \E i \in Slots, r \in Randoms, msg \in Messages : Sign(i, r, msg)
    \/ \E j \in Slots, msg \in Messages : VerifySignature(j, msg)
    \/ \E i \in Slots, u \in Uids : EncryptUuid(i, u)
    \/ \E j \in Slots : DecryptUuid(j)
    \/ \E i \in Slots, r \in Randoms, k \in ProfileKeys : EncryptProfileKey(i, r, k)
    \/ \E j \in Slots : DecryptProfileKey(j)
    \/ \E i \in Slots, r \in Randoms, b \in Plaintexts : EncryptBlob(i, r, b)
    \/ \E j \in Slots : DecryptBlob(j)
    \/ Reset

Spec == Init /\ [][Next]_vars

\* the blob cipher against an attacker on the wire: one instance, every
\* single-bit flip, every truncation, and forged inputs of every length
NextBlob ==
    \/ \E r \in Randoms : Generate(1, r)
    \/ \E m \in ImportedKeys : DeriveFromMasterKey(1, m)
    \/ \E r \in Randoms, b \in Plaintexts : EncryptBlob(1, r, b)
    \/ DecryptBlob(1)
    \/ \E pos \in 1..(MaxPlainLen + AEAD_TAG_LEN + AEAD_NONCE_LEN), k \in 0..7 :
           DecryptBlobFlipped(1, pos, k)
    \/ \E n \in 0..(MaxPlainLen + AEAD_TAG_LEN + AEAD_NONCE_LEN) : DecryptBlobTruncated(1, n)
    \/ \E v \in 0..1, n \in 0..MaxInLen : DecryptBlobForged(1, v, n)
    \/ Reset

SpecBlob == Init /\ [][NextBlob]_vars

\* ================================================================ claims
\* instances i and j belong to the same group
SameGroup(i, j) == params[i].master_key = params[j].master_key

BlobKey(i) ==
    ShoHash("Signal_ZKGroup_BlobEnc_KeyDerive", params[i].master_key.bytes, AEAD_KEY_LEN)
BlobNonce(r) == ShoHash("Signal_ZKGroup_BlobEnc_Nonce", r, AEAD_NONCE_LEN)

\* the last n bytes of a byte string
LastBytes(bytes, n) == SubSeq(bytes, Len(bytes) - n + 1, Len(bytes))

\* C1: encrypt_blob returns Ok(c) for every randomness and plaintext, and
\* decrypt_blob(c) on an instance of the same group returns Ok of exactly the
\* plaintext; the nonce decrypt_blob uses, the last 12 bytes of c, is the one
\* encrypt_blob derived from the randomness.
C1_BlobRoundTrip ==
    /\ last.op = "encrypt_blob" => IsOk(last.ret)
    /\ (last.op = "decrypt_blob" /\ last.src.how = <<"asis">>
            /\ SameGroup(last.slot, last.src.slot))
       => /\ last.ret = Ok(last.src.arg)
          /\ LastBytes(last.inp, 12) = BlobNonce(last.src.rnd)

C1_Witness ==
    /\ last.op = "decrypt_blob"
    /\ last.src.how = <<"asis">>
    /\ last.slot # last.src.slot
    /\ SameGroup(last.slot, last.src.slot)
    /\ Len(last.src.arg) > 0
    /\ last.ret = Ok(last.src.arg)

\* C2: decrypt_blob returns Err(DecryptionFailure) without calling the AEAD's
\* decrypt for every input of 0..11 bytes and of 12..27 bytes; inputs of 28
\* bytes or more, and only those, reach the AEAD's decrypt.
C2_ShortInputRejected ==
    last.op = "decrypt_blob" =>
       /\ Len(last.inp) \in 0..11 => (last.ret = Err("DecryptionFailure") /\ last.aead = 0)
       /\ Len(last.inp) \in 12..27 => (last.ret = Err("DecryptionFailure") /\ last.aead = 0)
       /\ Len(last.inp) >= 28 <=> last.aead = 1

C2_Witness ==
    /\ last.op = "decrypt_blob"
    /\ last.src.how = <<"truncate", 27>>
    /\ Len(last.inp) = 27
    /\ last.ret = Err("DecryptionFailure")
    /\ last.aead = 0

\* C3: the output of encrypt_blob(r, b) has len(b) + 28 bytes; its last 12
\* bytes are the expansion of r under "Signal_ZKGroup_BlobEnc_Nonce" and its
\* first len(b) + 16 bytes are the AEAD encryption of b under that nonce and
\* the key expanded from the master key under
\* "Signal_ZKGroup_BlobEnc_KeyDerive".
C3_BlobLayout ==
    last.op = "encrypt_blob" =>
       /\ IsOk(last.ret)
       /\ Len(last.ret[2]) = Len(last.arg) + 28
       /\ LastBytes(last.ret[2], 12) = BlobNonce(last.rnd)
       /\ SubSeq(last.ret[2], 1, Len(last.arg) + 16)
              = AeadEncrypt(BlobKey(last.slot), BlobNonce(last.rnd), last.arg)[2]

C3_Witness ==
    /\ last.op = "encrypt_blob"
    /\ Len(last.arg) = 2
    /\ Len(last.ret[2]) = 30
    /\ LastBytes(last.ret[2], 12) = BlobNonce(last.rnd)
    /\ SubSeq(last.ret[2], 1, 12) # BlobNonce(last.rnd)

\* C4: decrypt_blob of a valid blob with any single bit flipped (body, tag or
\* nonce) fails with DecryptionFailure; every failing decrypt_blob returns
\* exactly Err(DecryptionFailure): never BadArgs, and no plaintext bytes.
C4_TamperDetected ==
    last.op = "decrypt_blob" =>
       /\ (last.src.how[1] = "flip" /\ SameGroup(last.slot, last.src.slot))
             => last.ret = Err("DecryptionFailure")
       /\ IsErr(last.ret) => last.ret = Err("DecryptionFailure")

\* a flipped bit in the trailing nonce of a blob with a non-empty plaintext
C4_Witness ==
    /\ last.op = "decrypt_blob"
    /\ last.src.how[1] = "flip"
    /\ last.src.how[2] > Len(last.inp) - 12
    /\ Len(last.src.arg) > 0
    /\ last.ret = Err("DecryptionFailure")
    /\ last.aead = 1

\* the master key generate derives from randomness r
MasterKeyOf(r) ==
    GroupMasterKey_new(SubSeq(ShoHash("Signal_ZKGroup_Master_Random", r,
                                      GROUP_MASTER_KEY_LEN), 1, 32))

\* C5: an instance derived from master key m at any time equals
\* derive_from_master_key(m) evaluated now, so instances of equal master keys
\* are equal in all five fields; generate(r) equals derive_from_master_key(k)
\* for k the first 32 bytes of the expansion of r under
\* "Signal_ZKGroup_Master_Random", and get_master_key returns that k.
C5_KeyDerivationPure ==
    \A i \in DOMAIN params :
       /\ DOMAIN params[i] = {"uid_enc_key_pair", "profile_key_enc_key_pair",
                              "sig_key_pair", "master_key", "group_id"}
       /\ origin[i].how = "derive"
             => params[i] = derive_from_master_key(GroupMasterKey_new(origin[i].input))
       /\ origin[i].how = "generate"
             => /\ params[i] = derive_from_master_key(MasterKeyOf(origin[i].input))
                /\ get_master_key(params[i]) = MasterKeyOf(origin[i].input)
       /\ \A j \in DOMAIN params : SameGroup(i, j) => params[i] = params[j]

\* a generated instance and one derived later from its exported master key
C5_Witness ==
    /\ DOMAIN params = {1, 2}
    /\ origin[1].how = "generate"
    /\ origin[2].how = "derive"
    /\ origin[2].input = MasterKeyOf(origin[1].input).bytes
    /\ params[1] = params[2]

\* C6: decrypt_uuid of encrypt_uuid(u) on an instance of the same group
\* returns Ok(u); encrypting u again under the encrypting instance gives the
\* ciphertext that was returned before.
C6_UuidRoundTrip ==
    last.op = "decrypt_uuid" =>
       /\ SameGroup(last.slot, last.src.slot) => last.ret = Ok(last.src.arg)
       /\ last.inp = encrypt_uuid(params[last.src.slot], last.src.arg)
       /\ SameGroup(last.slot, last.src.slot)
             => last.inp = encrypt_uuid(params[last.slot], last.src.arg)

C6_Witness ==
    /\ last.op = "decrypt_uuid"
    /\ SameGroup(last.slot, last.src.slot)
    /\ last.ret = Ok(last.src.arg)
    /\ Len(last.src.arg) = UUID_LEN

\* C7: encrypt_profile_key(r, k) is the same ciphertext for every randomness
\* r, and decrypt_profile_key of it on an instance of the same group returns
\* Ok(k).
C7_ProfileKeyRandomnessInert ==
    /\ last.op = "encrypt_profile_key"
          => \A r \in Randoms :
                encrypt_profile_key(params[last.slot], r, last.arg) = last.ret
    /\ (last.op = "decrypt_profile_key" /\ SameGroup(last.slot, last.src.slot))
          => last.ret = Ok(last.src.arg)

\* a profile key encrypted with a randomness other than the all-zero one
C7_Witness ==
    /\ last.op = "decrypt_profile_key"
    /\ SameGroup(last.slot, last.src.slot)
    /\ last.src.rnd # Pattern(0, RANDOMNESS_LEN)
    /\ last.ret = Ok(last.src.arg)

\* C8: sign succeeds; verify_signature(msg, sign(r, msg)) succeeds on the
\* PublicParams of an instance of the signer's group, fails on the
\* PublicParams of a group of another master key, and fails when the message
\* verified is not the message signed.
C8_SignatureVerifies ==
    /\ last.op = "sign" => IsOk(last.ret)
    /\ last.op = "verify_signature" =>
          /\ (SameGroup(last.slot, last.src.slot) /\ last.arg = last.src.arg)
                => last.ret = Ok(<<>>)
          /\ ~SameGroup(last.slot, last.src.slot) => IsErr(last.ret)
          /\ last.arg # last.src.arg => IsErr(last.ret)

C8_Witness ==
    /\ last.op = "verify_signature"
    /\ SameGroup(last.slot, last.src.slot)
    /\ last.arg = last.src.arg
    /\ Len(last.arg) > 0
    /\ last.ret = Ok(<<>>)

\* the fields of a GroupPublicParams
PublicFields ==
    {"uid_enc_public_key", "profile_key_enc_public_key", "sig_public_key", "group_id"}

\* C9: get_public_params returns exactly the three public keys and the group
\* id of the instance and nothing else; get_group_identifier of the
\* PublicParams equals that of the SecretParams and the expansion of the
\* master key under "Signal_ZKGroup_GroupId"; PublicParams of instances with
\* distinct master keys differ in every field.
C9_PublicParamsProjection ==
    /\ last.op = "get_public_params" =>
          /\ DOMAIN last.ret = PublicFields
          /\ last.ret.uid_enc_public_key = params[last.slot].uid_enc_key_pair.public_key
          /\ last.ret.profile_key_enc_public_key
                = params[last.slot].profile_key_enc_key_pair.public_key
          /\ last.ret.sig_public_key = params[last.slot].sig_key_pair.public_key
          /\ last.ret.group_id = params[last.slot].group_id
    /\ last.op = "pub_get_group_identifier" =>
          /\ last.ret = get_group_identifier(params[last.slot])
          /\ last.ret = ShoHash("Signal_ZKGroup_GroupId",
                                params[last.slot].master_key.bytes, 32)
    /\ \A i, j \in DOMAIN params :
          ~SameGroup(i, j) =>
             \A f \in PublicFields :
                get_public_params(params[i])[f] # get_public_params(params[j])[f]

C9_Witness ==
    /\ last.op = "pub_get_group_identifier"
    /\ DOMAIN params = {1, 2}
    /\ ~SameGroup(1, 2)
    /\ last.ret = get_group_identifier(params[last.slot])

\* the return value of the call recorded in c, were it made on instance self
ReturnOn(self, c) ==
    CASE c.op = "get_public_params" -> get_public_params(self)
      [] c.op = "get_group_identifier" -> get_group_identifier(self)
      [] c.op = "pub_get_group_identifier" ->
             pub_get_group_identifier(get_public_params(self))
      [] c.op = "sign" -> sign(self, c.rnd, c.arg)
      [] c.op = "verify_signature" ->
             verify_signature(get_public_params(self), c.arg, c.inp)
      [] c.op = "encrypt_uuid" -> encrypt_uuid(self, c.arg)
      [] c.op = "decrypt_uuid" -> decrypt_uuid(self, c.inp)
      [] c.op = "encrypt_profile_key" -> encrypt_profile_key(self, c.rnd, c.arg)
      [] c.op = "decrypt_profile_key" -> decrypt_profile_key(self, c.inp)
      [] c.op = "encrypt_blob" -> encrypt_blob(self, c.rnd, c.arg)
      [] c.op = "decrypt_blob" -> decrypt_blob(self, c.inp).ret
      [] OTHER -> c.ret

\* no step changes an instance that exists
InstancesKept ==
    \A i \in DOMAIN params : i \in DOMAIN params' /\ params'[i] = params[i]

\* the receiver of the call the caller holds is still what a fresh derivation
\* from its master key gives, and the call returned what it returns on it
ReturnAsFresh ==
    last.slot \in DOMAIN params
       => /\ params[last.slot] = derive_from_master_key(params[last.slot].master_key)
          /\ last.ret = ReturnOn(params[last.slot], last)

====
